---- MODULE Spec2Model ----
(***************************************************************************)
(* A model of package mail (src/mail.go): the parser ReadMessage with its  *)
(* MIME walk decodeBody, the address scanner DecodeAddress, the derivation *)
(* operations Reply, ReplyAll and Forward, the composer Marshal and the    *)
(* retry loop around the base64 transfer decoder.                          *)
(*                                                                         *)
(* Text is a sequence of one-character strings.  A header value may also   *)
(* hold an RFC 2047 encoded word, written as the tokens "=?utf-8?q?", the  *)
(* encoded text and "?=", and the raw 8-bit byte "0xE9", which is not      *)
(* valid UTF-8 on its own.                                                 *)
(***************************************************************************)
EXTENDS Naturals, Sequences, FiniteSets

VARIABLES
    pc,      \* position of the operation under way
    input,   \* the input of the operation (raw header, raw message, stream)
    m,       \* the Message being built, or the Message operated on
    out,     \* the result of the operation
    err,     \* the error returned, NoErr when none
    depth,   \* number of decodeBody calls on the stack below the current part
    leaves,  \* the parts of the tree met so far, in document order
    pos,     \* read position in the part stream of the retry loop
    hist     \* the operations applied so far

vars == <<pc, input, m, out, err, depth, leaves, pos, hist>>

NoErr == <<>>
NoMsg == [none |-> TRUE]

---------------------------------------------------------------------------
(* Bounds of the model.                                                    *)

MaxHdrLen == 5
MaxList == 2
MaxSubjLen == 3
MaxChain == 2
MaxParts == 4
MaxDepth == 2
MaxBodyLen == 3
MaxStream == 5
MaxReadAhead == 2

---------------------------------------------------------------------------
(* Text helpers.                                                           *)

RECURSIVE SeqsUpTo(_, _)
SeqsUpTo(S, n) ==
    IF n = 0 THEN {<<>>}
    ELSE LET shorter == SeqsUpTo(S, n - 1)
         IN  shorter \cup {Append(s, x) : s \in {t \in shorter : Len(t) = n - 1}, x \in S}

RECURSIVE Concat(_)
Concat(ss) == IF ss = <<>> THEN <<>> ELSE Head(ss) \o Concat(Tail(ss))

RECURSIVE Join(_, _)
Join(ss, sep) ==
    IF ss = <<>> THEN <<>>
    ELSE IF Len(ss) = 1 THEN ss[1]
    ELSE ss[1] \o sep \o Join(Tail(ss), sep)

Range(s) == {s[i] : i \in 1..Len(s)}

HasPrefix(s, p) == Len(s) >= Len(p) /\ SubSeq(s, 1, Len(p)) = p

IsSpace(c) == c = " "

\* strings.Replace(s, " ", "", -1)
RemoveSpaces(s) == SelectSeq(s, LAMBDA c : c # " ")

\* strings.Split(s, sep) for a one-character sep: the pieces between the
\* separators; one piece, possibly empty, when there is no separator.
RECURSIVE SplitFrom(_, _, _, _)
SplitFrom(s, sep, i, cur) ==
    IF i > Len(s) THEN <<cur>>
    ELSE IF s[i] = sep THEN <<cur>> \o SplitFrom(s, sep, i + 1, <<>>)
    ELSE SplitFrom(s, sep, i + 1, Append(cur, s[i]))

Split(s, sep) == SplitFrom(s, sep, 1, <<>>)

\* strings.TrimSpace, which textproto applies to every header value.
RECURSIVE TrimLeft(_)
TrimLeft(s) == IF s # <<>> /\ IsSpace(Head(s)) THEN TrimLeft(Tail(s)) ELSE s

RECURSIVE TrimRight(_)
TrimRight(s) ==
    IF s # <<>> /\ IsSpace(s[Len(s)]) THEN TrimRight(SubSeq(s, 1, Len(s) - 1)) ELSE s

TrimSpace(s) == TrimRight(TrimLeft(s))

---------------------------------------------------------------------------
(* Charset Normalizer: decodeCharset and stripNonUTF8.                     *)

RawByte == "0xE9"
IsValidUTF8(s) == \A i \in 1..Len(s) : s[i] # RawByte

\* for _, r := range str yields U+FFFD for a byte that is no UTF-8; U+FFFD
\* is a valid rune and is written.
RECURSIVE stripNonUTF8(_)
stripNonUTF8(str) ==
    IF str = <<>> THEN <<>>
    ELSE <<IF Head(str) = RawByte THEN "U+FFFD" ELSE Head(str)>> \o stripNonUTF8(Tail(str))

\* The label "utf-8" is known; an unknown or empty label is sniffed: valid
\* UTF-8 stays as it is, anything else is read as windows-1252.
RECURSIVE Windows1252(_)
Windows1252(str) ==
    IF str = <<>> THEN <<>>
    ELSE <<IF Head(str) = RawByte THEN "e'" ELSE Head(str)>> \o Windows1252(Tail(str))

decodeCharset(str, label) ==
    LET decoded == IF label = "utf-8" \/ IsValidUTF8(str)
                   THEN stripNonUTF8(str)
                   ELSE Windows1252(str)
    IN  [ok |-> TRUE, val |-> stripNonUTF8(decoded)]

---------------------------------------------------------------------------
(* Header Word Decoder: decodeHeader.                                      *)

\* An encoded word is the tokens "=?utf-8?q?" (or another charset), the
\* Q-encoded text and "?=".
WordStart == {"=?utf-8?q?", "=?x-unknown?q?"}
WordEnd == "?="
KnownCharsets == {"=?utf-8?q?"}

QDecodeChar(c) ==
    CASE c = "_" -> " "
      [] c = "=C3=A9" -> "e'"
      [] c = "=3D" -> "="
      [] c = "=3F" -> "?"
      [] c = "=5F" -> "_"
      [] c = "=0A" -> "\n"
      [] OTHER -> c

RECURSIVE QDecode(_)
QDecode(text) ==
    IF text = <<>> THEN <<>> ELSE <<QDecodeChar(Head(text))>> \o QDecode(Tail(text))

FirstEnd(raw) ==
    IF \E e \in 2..Len(raw) : raw[e] = WordEnd
    THEN CHOOSE e \in 2..Len(raw) :
             raw[e] = WordEnd /\ \A k \in 2..(e - 1) : raw[k] # WordEnd
    ELSE 0

\* mime.WordDecoder.DecodeHeader with CharsetReader charset.NewReaderLabel:
\* every encoded word is replaced by its text, white space between two
\* encoded words is dropped, and an unknown charset is an error.
RECURSIVE DecodeWords(_, _, _, _)
DecodeWords(raw, acc, betweenWords, pending) ==
    IF raw = <<>> THEN [ok |-> TRUE, val |-> acc \o pending]
    ELSE LET t == Head(raw)
             e == FirstEnd(raw)
         IN
         IF t \in WordStart /\ e > 0
         THEN IF t \notin KnownCharsets
              THEN [ok |-> FALSE, val |-> <<>>]
              ELSE DecodeWords(SubSeq(raw, e + 1, Len(raw)),
                               acc \o QDecode(SubSeq(raw, 2, e - 1)), TRUE, <<>>)
         ELSE IF betweenWords /\ IsSpace(t)
              THEN DecodeWords(Tail(raw), acc, TRUE, Append(pending, t))
              ELSE DecodeWords(Tail(raw), acc \o pending \o <<t>>, FALSE, <<>>)

decodeHeader(rawheader) ==
    LET first == DecodeWords(rawheader, <<>>, FALSE, <<>>) IN
    IF ~first.ok THEN first
    ELSE IF ~IsValidUTF8(first.val)
         THEN LET n == decodeCharset(first.val, "") IN
              IF ~n.ok THEN [ok |-> FALSE, val |-> first.val]
              ELSE IF ~IsValidUTF8(n.val) THEN [ok |-> FALSE, val |-> first.val]
              ELSE n
         ELSE first

---------------------------------------------------------------------------
(* Address Extractor: DecodeAddress.                                       *)

\* ScanAddress with the accumulator kept when "<" is repeated in state inside.
RECURSIVE ScanAddressNoReset(_, _, _, _, _)
ScanAddressNoReset(header, i, state, buf, addrs) ==
    IF i > Len(header) THEN addrs
    ELSE LET v == header[i] IN
         IF state = "outside"
         THEN IF v = "<" THEN ScanAddressNoReset(header, i + 1, "inside", buf, addrs)
              ELSE ScanAddressNoReset(header, i + 1, "outside", buf, addrs)
         ELSE IF v = "<" THEN ScanAddressNoReset(header, i + 1, "inside", buf, addrs)
              ELSE IF v = ">"
                   THEN ScanAddressNoReset(header, i + 1, "outside", <<>>, Append(addrs, buf))
                   ELSE ScanAddressNoReset(header, i + 1, "inside", Append(buf, v), addrs)

\* The loop of lines 477-500: one rune at a time, in state outside or inside.
RECURSIVE ScanAddress(_, _, _, _, _)
ScanAddress(header, i, state, buf, addrs) ==
    IF i > Len(header) THEN addrs
    ELSE LET v == header[i] IN
         IF state = "outside"
         THEN IF v = ">" THEN ScanAddress(header, i + 1, "outside", buf, addrs)
              ELSE IF v = "<" THEN ScanAddress(header, i + 1, "inside", buf, addrs)
              ELSE ScanAddress(header, i + 1, "outside", buf, addrs)
         ELSE IF v = "<" THEN ScanAddress(header, i + 1, "inside", <<>>, addrs)
              ELSE IF v = ">"
                   THEN ScanAddress(header, i + 1, "outside", <<>>, Append(addrs, buf))
                   ELSE ScanAddress(header, i + 1, "inside", Append(buf, v), addrs)

DecodeAddress(rawheader) ==
    IF rawheader = <<>> THEN [ok |-> TRUE, val |-> <<>>]
    ELSE LET header == decodeHeader(rawheader) IN
         IF ~header.ok THEN [ok |-> FALSE, val |-> <<>>]
         ELSE LET addrs == ScanAddress(header.val, 1, "outside", <<>>, <<>>) IN
              IF Len(addrs) = 0
              THEN [ok |-> TRUE, val |-> Split(RemoveSpaces(header.val), ",")]
              ELSE [ok |-> TRUE, val |-> addrs]

---------------------------------------------------------------------------
(* Transfer Decoder: decodeTransfer and the readers it builds.  A stream   *)
(* is read to its end (ioutil.ReadAll); the result is the bytes read, the  *)
(* error that ended the read and the number of stream bytes consumed.      *)
(* Base64 text is written with the characters "Y" and "W"; "!" is a        *)
(* character outside the base64 alphabet; padding and line breaks inside   *)
(* base64 text, and the soft line breaks that quoted-printable text needs  *)
(* from 76 characters on, are not modelled.                                *)

NoReadErr == "nil"
CorruptInput == "base64.CorruptInputError"

\* nonASCIITransformer.Transform: bytes above 127 are dropped.
NonASCIIFilter(src) == SelectSeq(src, LAMBDA b : b # RawByte)

\* newlineAppendTransformer.Transform: a newline is appended at the end.
NewlineAppend(src) == Append(src, "\n")

\* The byte two neighbouring base64 characters decode to.
PairByte(c1, c2) ==
    CASE c1 = "Y" /\ c2 = "Y" -> "yy"
      [] c1 = "Y" /\ c2 = "W" -> "yw"
      [] c1 = "W" /\ c2 = "Y" -> "wy"
      [] OTHER -> "ww"

DecodeQuantum(q) == <<PairByte(q[1], q[2]), PairByte(q[2], q[3]), PairByte(q[3], q[4])>>

IsBase64Char(c) == c \in {"Y", "W"}

\* base64.NewDecoder over the filtered stream, read from position i on: q
\* holds the characters of the quantum under way, data the bytes decoded.
RECURSIVE Base64Read(_, _, _, _)
Base64Read(stream, i, q, data) ==
    IF i > Len(stream)
    THEN [data |-> data, used |-> Len(stream),
          err |-> IF q = <<>> THEN NoReadErr ELSE "unexpected EOF"]
    ELSE IF stream[i] = RawByte THEN Base64Read(stream, i + 1, q, data)
    ELSE LET nq == Append(q, stream[i]) IN
         IF Len(nq) < 4 THEN Base64Read(stream, i + 1, nq, data)
         ELSE IF \E k \in 1..4 : ~IsBase64Char(nq[k])
              THEN [data |-> data, used |-> i, err |-> CorruptInput]
              ELSE Base64Read(stream, i + 1, <<>>, data \o DecodeQuantum(nq))

QPDecodeChar(c) ==
    CASE c = "=3D" -> "="
      [] c = "=20" -> " "
      [] OTHER -> c

RECURSIVE QPDecodeLine(_)
QPDecodeLine(line) ==
    IF line = <<>> THEN <<>> ELSE <<QPDecodeChar(Head(line))>> \o QPDecodeLine(Tail(line))

IsQPDiscard(c) == c \in {" ", "\t", "\r", "\n"}

RECURSIVE QPTrimRight(_)
QPTrimRight(line) ==
    IF line # <<>> /\ IsQPDiscard(line[Len(line)])
    THEN QPTrimRight(SubSeq(line, 1, Len(line) - 1))
    ELSE line

\* quotedprintable.Reader on the lines of the stream; the last piece of
\* Split has no line feed after it.
RECURSIVE QPReadLines(_, _)
QPReadLines(lines, data) ==
    IF lines = <<>> THEN [data |-> data, err |-> NoReadErr]
    ELSE LET whole == Head(lines)
             hasLF == Len(lines) > 1
             hasCR == hasLF /\ whole # <<>> /\ whole[Len(whole)] = "\r"
             line == QPTrimRight(whole)
         IN
         IF ~hasLF /\ whole = <<>> THEN [data |-> data, err |-> NoReadErr]
         ELSE IF line # <<>> /\ line[Len(line)] = "="
         THEN IF hasLF /\ (Len(whole) = Len(line) \/ whole = Append(line, "\r"))
              THEN QPReadLines(Tail(lines),
                               data \o QPDecodeLine(SubSeq(line, 1, Len(line) - 1)))
              ELSE [data |-> data \o QPDecodeLine(SubSeq(line, 1, Len(line) - 1)),
                    err |-> "quotedprintable: invalid bytes after ="]
         ELSE IF \E k \in 1..Len(line) : line[k] = "="
         THEN [data |-> data, err |-> "quotedprintable: invalid hex byte"]
         ELSE QPReadLines(Tail(lines),
                          data \o QPDecodeLine(line)
                               \o (IF ~hasLF THEN <<>>
                                   ELSE IF hasCR THEN <<"\r", "\n">> ELSE <<"\n">>))

QPRead(stream) == QPReadLines(Split(stream, "\n"), <<>>)

ToLowerLabel(label) ==
    CASE label = "BASE64" -> "base64"
      [] label = "Quoted-Printable" -> "quoted-printable"
      [] label = "7BIT" -> "7bit"
      [] label = "X-Custom" -> "x-custom"
      [] OTHER -> label

SupportedLabels == {"base64", "quoted-printable", "", "7bit", "8bit", "binary"}

\* ReadAllTransfer with a label that is not known read as plain text.
ReadAllTransferLenient(stream, n, label) ==
    LET rest == SubSeq(stream, n + 1, Len(stream))
        l == ToLowerLabel(label)
    IN
    CASE l = "base64" -> Base64Read(stream, n + 1, <<>>, <<>>)
      [] l = "quoted-printable" ->
            LET r == QPRead(NewlineAppend(NonASCIIFilter(rest)))
            IN  [data |-> r.data, used |-> Len(stream), err |-> r.err]
      [] OTHER ->
            [data |-> rest, used |-> Len(stream), err |-> NoReadErr]

\* ioutil.ReadAll(decodeTransfer(r, label)) with n bytes of r consumed before.
ReadAllTransfer(stream, n, label) ==
    LET i == n + 1
        rest == SubSeq(stream, i, Len(stream))
        l == ToLowerLabel(label)
    IN
    CASE l = "base64" -> Base64Read(stream, i, <<>>, <<>>)
      [] l = "quoted-printable" ->
            LET r == QPRead(NewlineAppend(NonASCIIFilter(rest)))
            IN  [data |-> r.data, used |-> Len(stream), err |-> r.err]
      [] l \in {"", "7bit", "8bit", "binary"} ->
            [data |-> rest, used |-> Len(stream), err |-> NoReadErr]
      [] OTHER ->
            [data |-> <<>>, used |-> n, err |-> "unsupported transfer encoding"]

Min(a, b) == IF a < b THEN a ELSE b

\* NextReadPos with the failed read leaving r where it had found it.
NextReadPosRewound(n, used, ahead, len) == n

\* Where r stands after a read that began with n bytes consumed and ended
\* in a corrupt-input error: the reader had taken the bytes it decoded, up
\* to the end of the corrupt quantum, and ahead more into its buffers.
NextReadPos(n, used, ahead, len) == Min(len, used + ahead)

\* Line 413: buf.Write(data), before the error is looked at.
WriteBuf(buf, data) == buf \o data

\* The loop of lines 411-421: a read that ends in a corrupt-input error is
\* followed by another read of what is left of r.
RECURSIVE RetryLoop(_, _, _, _, _)
RetryLoop(stream, label, n, buf, ahead) ==
    LET r == ReadAllTransfer(stream, n, label)
        nbuf == WriteBuf(buf, r.data)
    IN
    IF r.err = CorruptInput
    THEN RetryLoop(stream, label, NextReadPos(n, r.used, ahead, Len(stream)), nbuf, ahead)
    ELSE IF r.err # NoReadErr
    THEN [ok |-> FALSE, buf |-> nbuf, err |-> r.err]
    ELSE [ok |-> TRUE, buf |-> nbuf, err |-> NoReadErr]

ReadError(what, e, label) ==
    IF e = "unsupported transfer encoding" THEN <<what, e, label>> ELSE <<what, e>>

---------------------------------------------------------------------------
(* MIME Body Walker: decodeBody.  A part is its header fields and its raw  *)
(* bytes: ct the media type ("" when there is no Content-Type header,      *)
(* "malformed" when it does not parse), name the name parameter, cd the    *)
(* Content-Disposition header ("", "attachment", "malformed") with its     *)
(* filename parameter, cte and charset the labels, raw the bytes and inner *)
(* the leaves that the bytes of a multipart part hold.                     *)

IsMultipart(ct) == ct \in {"multipart/mixed", "multipart/alternative"}

\* Lines 371-373.
MediaType(p) == IF p.ct = "" THEN "text/plain" ELSE p.ct

\* Lines 381-392; p.cd is not malformed.
FileName(p) ==
    IF p.name # <<>> THEN p.name
    ELSE IF p.cd # "" THEN p.filename
    ELSE <<>>

\* AppendText with the new text put in place of the old.
ReplaceText(old, new) == new

\* Lines 429 and 433: m.HTML += body, m.Body += body.
AppendText(old, new) == old \o new

\* One call of decodeBody on part p, up to the loop over the sub-parts
\* (lines 371-438 and 456-458): the message it leaves, the error it returns
\* and whether it goes on to read the sub-parts of p.
decodePart(msg, p) ==
    LET ct == MediaType(p)
        filename == FileName(p)
        fail(e) == [m |-> msg, err |-> e, descend |-> FALSE]
    IN
    IF p.ct = "malformed" THEN fail(<<"invalid content-type">>)
    ELSE IF p.name = <<>> /\ p.cd = "malformed" THEN fail(<<"invalid content-disposition">>)
    ELSE IF filename # <<>>
    THEN LET name == decodeHeader(filename)
             r == ReadAllTransfer(p.raw, 0, p.cte)
         IN
         IF ~name.ok THEN fail(<<"decode filename">>)
         ELSE IF r.err # NoReadErr THEN fail(ReadError("read attachment", r.err, p.cte))
         ELSE [m |-> [msg EXCEPT !.Parts = Append(@, [Name |-> name.val, Data |-> r.data])],
               err |-> NoErr, descend |-> FALSE]
    ELSE IF ct = "text/plain" \/ ct = "text/html"
    THEN LET r == RetryLoop(p.raw, p.cte, 0, <<>>, Len(p.raw)) IN
         IF ~r.ok THEN fail(ReadError("read body", r.err, p.cte))
         ELSE LET body == decodeCharset(r.buf, p.charset) IN
              IF ct = "text/html"
              THEN [m |-> [msg EXCEPT !.HTML = AppendText(@, body.val)],
                    err |-> NoErr, descend |-> FALSE]
              ELSE [m |-> [msg EXCEPT !.Body = AppendText(@, body.val)],
                    err |-> NoErr, descend |-> FALSE]
    ELSE IF IsMultipart(ct) THEN [m |-> msg, err |-> NoErr, descend |-> TRUE]
    ELSE [m |-> msg, err |-> NoErr, descend |-> FALSE]

\* html2text.FromString, the text-extraction collaborator: the text outside
\* the tags.
html2text(html) == SelectSeq(html, LAMBDA c : c \notin {"<b>", "</b>"})


---------------------------------------------------------------------------
(* Message Model: NewMessage, makeID and the derivation operations.        *)

Digits == <<"0", "1", "2", "3", "4", "5", "6", "7", "8", "9">>

\* makeID: a token unique to the call; n numbers the calls.
makeID(n) == <<"<", "i", "d", Digits[n + 1], "@", "h", ">">>

Now == "now"

NewMessage(from, to, cc, subject, body, headers, id) ==
    [ID |-> id, ReturnPath |-> from, From |-> from, To |-> to, CC |-> cc,
     Subject |-> subject, Date |-> Now, IsHTML |-> FALSE, HTML |-> <<>>,
     Body |-> body, Parts |-> <<>>, Headers |-> headers]

ToLowerChar(c) ==
    CASE c = "R" -> "r"
      [] c = "E" -> "e"
      [] c = "F" -> "f"
      [] c = "W" -> "w"
      [] c = "D" -> "d"
      [] OTHER -> c

RECURSIVE ToLower(_)
ToLower(str) ==
    IF str = <<>> THEN <<>> ELSE <<ToLowerChar(Head(str))>> \o ToLower(Tail(str))

RECURSIVE QuoteLines(_)
QuoteLines(lines) ==
    IF lines = <<>> THEN <<>>
    ELSE <<">">> \o Head(lines) \o <<"\n">> \o QuoteLines(Tail(lines))

ReplyHeaders(msg) ==
    [n \in {"In-Reply-To", "References"} |-> msg.ID]

\* Reply with the prefix added whatever the subject starts with.
ReplySubjectAlways(subject) == <<"R", "e", ":", " ">> \o subject

\* Lines 221-224.
ReplySubject(subject) ==
    IF ~HasPrefix(ToLower(subject), <<"r", "e", ":">>)
    THEN <<"R", "e", ":", " ">> \o subject
    ELSE subject

\* Lines 275-278.
ForwardSubject(subject) ==
    IF ~HasPrefix(ToLower(subject), <<"f", "w", "d", ":">>)
    THEN <<"F", "w", "d", ":", " ">> \o subject
    ELSE subject

Reply(msg, from, body, cc, id) ==
    LET nbody == body \o <<"\n", "\n">>
                 \o <<"-------- Original message --------", "\n">>
                 \o QuoteLines(Split(msg.Body, "\n"))
    IN  NewMessage(from, <<msg.ReturnPath>>, cc, ReplySubject(msg.Subject), nbody,
                   ReplyHeaders(msg), id)

\* The loops of lines 256-268: v is appended unless seen.
RECURSIVE AppendUnseen(_, _)
AppendUnseen(cc, list) ==
    IF list = <<>> THEN cc
    ELSE AppendUnseen(IF Head(list) \in Range(cc) THEN cc ELSE Append(cc, Head(list)),
                      Tail(list))

\* ReplyAllCC with the CC list appended without the look-up in seen.
ReplyAllCCNoSeen(msg) ==
    LET seed == IF msg.ReturnPath # msg.From THEN <<msg.From>> ELSE <<>>
    IN  AppendUnseen(seed, msg.To) \o msg.CC

\* Lines 246-268: the cc list ReplyAll hands to Reply.
ReplyAllCC(msg) ==
    LET seed == IF msg.ReturnPath # msg.From THEN <<msg.From>> ELSE <<>>
    IN  AppendUnseen(AppendUnseen(seed, msg.To), msg.CC)

ReplyAll(msg, from, body, id) == Reply(msg, from, body, ReplyAllCC(msg), id)

Forward(msg, from, to, cc, body, id) ==
    LET nbody == body \o <<"\n", "\n">>
                 \o <<"-------- Forwarded message --------", "\n">>
                 \o msg.Body
    IN  NewMessage(from, to, cc, ForwardSubject(msg.Subject), nbody,
                   ReplyHeaders(msg), id)

---------------------------------------------------------------------------
(* Message Model, parse entry point: ReadMessage.  The raw message is the  *)
(* header block as mail.ReadMessage splits it (each value trimmed, empty   *)
(* when the header is absent) and the root part.                           *)

\* mail.Header.Date: <<"d">> and <<"n">> are well-formed dates, <<"n">> the
\* date of the call of time.Now.
ParseDate(h) ==
    IF h = <<"d">> THEN [ok |-> TRUE, val |-> "d"]
    ELSE IF h = <<"n">> THEN [ok |-> TRUE, val |-> Now]
    ELSE [ok |-> FALSE, val |-> Now]

\* Lines 189-199: the values of one header decoded and joined with a space.
RECURSIVE JoinDecoded(_, _)
JoinDecoded(values, str) ==
    IF values = <<>> THEN [ok |-> TRUE, val |-> str]
    ELSE LET decoded == decodeHeader(Head(values)) IN
         IF ~decoded.ok THEN [ok |-> FALSE, val |-> str]
         ELSE JoinDecoded(Tail(values),
                          (IF str # <<>> THEN Append(str, " ") ELSE str) \o decoded.val)

\* The headers of the message beside the seven that become fields.
RestHeaders(inp) ==
    LET mime == (IF inp.root.ct # "" THEN {"Content-Type"} ELSE {})
                \cup (IF inp.root.cte # "" THEN {"Content-Transfer-Encoding"} ELSE {})
    IN  [k \in DOMAIN inp.Other \cup mime |->
            IF k = "Content-Type" THEN << <<inp.root.ct>> >>
            ELSE IF k = "Content-Transfer-Encoding" THEN << <<inp.root.cte>> >>
            ELSE inp.Other[k]]

FirstOr(list, default) == IF Len(list) > 0 THEN list[1] ELSE default

\* Lines 108-201 of ReadMessage: the fields and the header map.
ReadHeaders(inp) ==
    LET subject == decodeHeader(inp.Subject)
        retpath == DecodeAddress(inp.ReturnPath)
        from == DecodeAddress(inp.From)
        to == DecodeAddress(inp.To)
        cc == DecodeAddress(inp.Cc)
        rest == RestHeaders(inp)
        fail(e) == [ok |-> FALSE, m |-> NoMsg, err |-> e]
        mFrom == FirstOr(from.val, <<>>)
        mRetPath == FirstOr(retpath.val, <<>>)
    IN
    IF ~subject.ok THEN fail(<<"decode header">>)
    ELSE IF ~retpath.ok THEN fail(<<"parse return-path">>)
    ELSE IF ~from.ok THEN fail(<<"parse from">>)
    ELSE IF ~to.ok THEN fail(<<"parse to">>)
    ELSE IF ~cc.ok THEN fail(<<"parse cc">>)
    ELSE IF \E k \in DOMAIN rest : ~JoinDecoded(rest[k], <<>>).ok
    THEN fail(<<"decode header">>)
    ELSE [ok |-> TRUE,
          m |-> [ID |-> IF inp.MessageId # <<>> THEN inp.MessageId ELSE makeID(0),
                 Date |-> ParseDate(inp.Date).val,
                 Subject |-> IF subject.val # <<>> THEN subject.val
                             ELSE <<"N", "o", " ", "s", "u", "b", "j", "e", "c", "t">>,
                 ReturnPath |-> IF mRetPath = <<>> THEN mFrom ELSE mRetPath,
                 From |-> mFrom,
                 To |-> to.val,
                 CC |-> cc.val,
                 IsHTML |-> FALSE, HTML |-> <<>>, Body |-> <<>>, Parts |-> <<>>,
                 Headers |-> [k \in DOMAIN rest |-> JoinDecoded(rest[k], <<>>).val]],
          err |-> NoErr]

\* Lines 208-214.
ConvertHTML(msg) ==
    IF Len(msg.HTML) > 0
    THEN [msg EXCEPT !.Body = html2text(msg.HTML), !.IsHTML = TRUE]
    ELSE msg

---------------------------------------------------------------------------
(* Composer: Marshal, with mime.QEncoding.Encode for the header values and *)
(* quotedprintable.Writer for the body.  The output is the header lines in *)
(* the order written and the body bytes.                                   *)

NeedsEncoding(str) == \E i \in 1..Len(str) : str[i] \in {"e'", "\n", "\r", RawByte}

QEncodeChar(c) ==
    CASE c = " " -> "_"
      [] c = "e'" -> "=C3=A9"
      [] c = "=" -> "=3D"
      [] c = "?" -> "=3F"
      [] c = "_" -> "=5F"
      [] c = "\n" -> "=0A"
      [] OTHER -> c

RECURSIVE QEncodeText(_)
QEncodeText(str) ==
    IF str = <<>> THEN <<>> ELSE <<QEncodeChar(Head(str))>> \o QEncodeText(Tail(str))

\* mime.QEncoding.Encode("utf-8", str)
QEncode(str) ==
    IF NeedsEncoding(str) THEN <<"=?utf-8?q?">> \o QEncodeText(str) \o <<WordEnd>> ELSE str

\* quotedprintable.Writer.checkLastByte: white space at the end of a line
\* is written encoded.
CheckLastByte(line) ==
    IF line # <<>> /\ line[Len(line)] = " "
    THEN Append(SubSeq(line, 1, Len(line) - 1), "=20")
    ELSE line

\* quotedprintable.Writer.Write and Close on the bytes of p from i on.
RECURSIVE QPWrite(_, _, _, _, _)
QPWrite(p, i, line, w, cr) ==
    IF i > Len(p) THEN w \o CheckLastByte(line)
    ELSE LET b == p[i] IN
         IF b = "\n" /\ cr THEN QPWrite(p, i + 1, line, w, FALSE)
         ELSE IF b = "\n" \/ b = "\r"
         THEN QPWrite(p, i + 1, <<>>, w \o CheckLastByte(line) \o <<"\r", "\n">>, b = "\r")
         ELSE IF b = "=" THEN QPWrite(p, i + 1, Append(line, "=3D"), w, FALSE)
         ELSE QPWrite(p, i + 1, Append(line, b), w, FALSE)

RECURSIVE Bracketed(_)
Bracketed(list) ==
    IF list = <<>> THEN <<>>
    ELSE <<"<">> \o Head(list) \o <<">">>
         \o (IF Len(list) > 1 THEN <<",", " ">> ELSE <<>>) \o Bracketed(Tail(list))

Line(name, value) == [name |-> name, value |-> value]

\* The header names of m.Headers in some order (range over a map).
RECURSIVE HeaderLines(_, _)
HeaderLines(headers, names) ==
    IF names = {} THEN <<>>
    ELSE LET k == CHOOSE n \in names : TRUE IN
         (IF k \in {"Content-Type", "Content-Transfer-Encoding", "Content-Disposition"}
          THEN <<>> ELSE <<Line(k, QEncode(headers[k]))>>)
         \o HeaderLines(headers, names \ {k})

Marshal(msg) ==
    [lines |->
        <<Line("From", <<"<">> \o msg.From \o <<">">>)>>
        \o (IF Len(msg.To) > 0 THEN <<Line("To", Bracketed(msg.To))>> ELSE <<>>)
        \o (IF Len(msg.CC) > 0 THEN <<Line("CC", Bracketed(msg.CC))>> ELSE <<>>)
        \o <<Line("Message-ID", msg.ID), Line("Subject", QEncode(msg.Subject)),
             Line("Date", IF msg.Date = Now THEN <<"n">> ELSE <<"d">>)>>
        \o HeaderLines(msg.Headers, DOMAIN msg.Headers)
        \o <<Line("Content-Type",
                  IF msg.IsHTML THEN <<"text/html", ";", " ", "charset=utf-8", ";">>
                  ELSE <<"text/plain", ";", " ", "charset=utf-8", ";">>),
             Line("Content-Transfer-Encoding", <<"quoted-printable">>)>>,
     body |-> QPWrite(msg.Body, 1, <<>>, <<>>, FALSE)]

---------------------------------------------------------------------------
(* Specification SpecAddr: DecodeAddress applied to a raw header value.    *)

AddrAlphabet == {"a", " ", ",", "<", ">"}

ExampleBracketed ==
    <<"N","a","m","e"," ","<","a","@","b",".","c","o","m",">",","," ",
      "N","a","m","e","2"," ","<","c","@","d",".","c","o","m",">">>
ExamplePlain ==
    <<"a","@","b",".","c","o","m",","," ","c","@","d",".","c","o","m">>
ExampleWords ==
    { <<"=?utf-8?q?", "N", "?=", " ", "=?utf-8?q?", "n", "?=", " ", "<", "a", ">">>,
      <<"=?utf-8?q?", "<", "a", "?=", ">", ",", "<", RawByte, ">">>,
      <<"=?utf-8?q?", "?=">>,
      <<"=?x-unknown?q?", "N", "?=", " ", "<", "a", ">">> }

AddrInputs ==
    SeqsUpTo(AddrAlphabet, MaxHdrLen) \cup {ExampleBracketed, ExamplePlain} \cup ExampleWords

InitAddr ==
    /\ pc = "start"
    /\ input \in AddrInputs
    /\ m = NoMsg
    /\ out = <<>>
    /\ err = NoErr
    /\ depth = 0
    /\ leaves = <<>>
    /\ pos = 0
    /\ hist = <<>>

CallDecodeAddress ==
    /\ pc = "start"
    /\ LET r == DecodeAddress(input) IN
       /\ out' = r.val
       /\ err' = IF r.ok THEN NoErr ELSE <<"decode header">>
    /\ pc' = "done"
    /\ UNCHANGED <<input, m, depth, leaves, pos, hist>>

NextAddr == CallDecodeAddress

SpecAddr == InitAddr /\ [][NextAddr]_vars

\* The decoded text the scan runs over.
AddrText == decodeHeader(input).val

IsBracket(c) == c \in {"<", ">"}

\* j opens the address that the ">" at i closes: the nearest bracket before
\* i is a "<", at j.
Opens(text, j, i) ==
    /\ j < i
    /\ text[j] = "<"
    /\ \A k \in (j + 1)..(i - 1) : ~IsBracket(text[k])

Closers(text) ==
    {i \in 1..Len(text) : text[i] = ">" /\ \E j \in 1..Len(text) : Opens(text, j, i)}

NthCloser(text, n) ==
    CHOOSE i \in Closers(text) : Cardinality({c \in Closers(text) : c <= i}) = n

\* C5: DecodeAddress returns the empty sequence for the empty header; one
\* address per ">" met in state inside, in order, each the text between the
\* nearest "<" and that ">"; and, when no address was closed, the pieces of
\* the space-free decoded text between its commas.
C5_DecodeAddress ==
    (pc = "done" /\ err = NoErr) =>
        /\ input = <<>> => out = <<>>
        /\ (input # <<>> /\ Closers(AddrText) # {}) =>
               /\ Len(out) = Cardinality(Closers(AddrText))
               /\ \A n \in 1..Len(out) :
                      LET i == NthCloser(AddrText, n)
                          j == CHOOSE k \in 1..Len(AddrText) : Opens(AddrText, k, i)
                      IN  out[n] = SubSeq(AddrText, j + 1, i - 1)
        /\ (input # <<>> /\ Closers(AddrText) = {}) =>
               /\ Len(out) >= 1
               /\ \A n \in 1..Len(out) : "," \notin Range(out[n])
               /\ Join(out, <<",">>) = RemoveSpaces(AddrText)
        /\ input = ExampleBracketed =>
               out = << <<"a","@","b",".","c","o","m">>, <<"c","@","d",".","c","o","m">> >>
        /\ input = ExamplePlain =>
               out = << <<"a","@","b",".","c","o","m">>, <<"c","@","d",".","c","o","m">> >>

\* An address was closed after a repeated "<" had discarded an earlier one.
C5_Witness ==
    /\ pc = "done"
    /\ err = NoErr
    /\ input = <<"<", "a", "<", ">", ",">>
    /\ out = << <<>> >>

---------------------------------------------------------------------------
(* Specification SpecDerive: Reply, ReplyAll and Forward applied to a      *)
(* message and then to the message derived from it.                        *)

Addrs == {<<"a">>, <<"b">>, <<"c">>}
SubjAlphabet == {"r", "R", "e", ":", "f", "F", "w", "d"}
Helpdesk == <<"h">>

ParsedMessage(retpath, from, to, cc, subject, body) ==
    [ID |-> makeID(0), ReturnPath |-> retpath, From |-> from, To |-> to, CC |-> cc,
     Subject |-> subject, Date |-> Now, IsHTML |-> FALSE, HTML |-> <<>>,
     Body |-> body, Parts |-> <<>>, Headers |-> [n \in {} |-> <<>>]]

DeriveInputs ==
    {ParsedMessage(rp, <<"a">>, to, cc, <<"w">>, <<"x", "\n", "y">>) :
        rp \in {<<"a">>, <<"b">>},
        to \in SeqsUpTo(Addrs, MaxList), cc \in SeqsUpTo(Addrs, MaxList)}
    \cup
    {ParsedMessage(<<"a">>, <<"a">>, << <<"b">> >>, <<>>, subj, <<"x">>) :
        subj \in SeqsUpTo(SubjAlphabet, MaxSubjLen)}

InitDerive ==
    /\ pc = "idle"
    /\ m \in DeriveInputs
    /\ input = NoMsg
    /\ out = NoMsg
    /\ err = NoErr
    /\ depth = 0
    /\ leaves = <<>>
    /\ pos = 0
    /\ hist = <<>>

\* The message the next operation is called on: m, then each derived message.
Receiver == IF hist = <<>> THEN m ELSE out

DoReply ==
    /\ pc = "idle"
    /\ Len(hist) < MaxChain
    /\ \E cc \in {<<>>, << <<"c">> >>} :
           out' = Reply(Receiver, Helpdesk, <<"o", "k">>, cc, makeID(Len(hist) + 1))
    /\ input' = Receiver
    /\ hist' = Append(hist, "Reply")
    /\ UNCHANGED <<pc, m, err, depth, leaves, pos>>

DoReplyAll ==
    /\ pc = "idle"
    /\ Len(hist) < MaxChain
    /\ out' = ReplyAll(Receiver, Helpdesk, <<"o", "k">>, makeID(Len(hist) + 1))
    /\ input' = Receiver
    /\ hist' = Append(hist, "ReplyAll")
    /\ UNCHANGED <<pc, m, err, depth, leaves, pos>>

DoForward ==
    /\ pc = "idle"
    /\ Len(hist) < MaxChain
    /\ out' = Forward(Receiver, Helpdesk, << <<"c">> >>, <<>>, <<"f", "y", "i">>,
                      makeID(Len(hist) + 1))
    /\ input' = Receiver
    /\ hist' = Append(hist, "Forward")
    /\ UNCHANGED <<pc, m, err, depth, leaves, pos>>

NextDerive == DoReply \/ DoReplyAll \/ DoForward

SpecDerive == InitDerive /\ [][NextDerive]_vars

FirstIndex(s, x) == CHOOSE i \in 1..Len(s) : s[i] = x /\ \A k \in 1..(i - 1) : s[k] # x

\* The addresses ReplyAll draws from, in the order it reads them.
ReplyAllSource(msg) ==
    (IF msg.From # msg.ReturnPath THEN <<msg.From>> ELSE <<>>) \o msg.To \o msg.CC

\* C6: the CC list of m.ReplyAll(from, body) holds no address twice and is
\* the first-occurrence-order deduplication of [From, if it differs from
\* ReturnPath] followed by To followed by CC; m is left unchanged.
C6_ReplyAllDedup ==
    (hist # <<>> /\ hist[Len(hist)] = "ReplyAll") =>
        LET src == ReplyAllSource(input)
            cc == out.CC
        IN  /\ \A i, j \in 1..Len(cc) : i # j => cc[i] # cc[j]
            /\ Range(cc) = Range(src)
            /\ \A i, j \in 1..Len(cc) :
                   i < j => FirstIndex(src, cc[i]) < FirstIndex(src, cc[j])
            /\ Len(hist) = 1 => m = input

\* ReplyAll ran on a message whose To repeats an address that CC holds too.
C6_Witness ==
    /\ hist = <<"ReplyAll">>
    /\ input.ReturnPath # input.From
    /\ input.To = << <<"b">>, <<"b">> >>
    /\ input.CC = << <<"a">>, <<"b">> >>
    /\ out.CC = << <<"a">>, <<"b">> >>

AllOps(op) == hist # <<>> /\ \A i \in 1..Len(hist) : hist[i] = op

\* C7: Reply gives "Re: " + subject unless the subject starts with "re:" in
\* any letter case, and then leaves it alone, so every Reply of a chain of
\* Replies gives the subject the first one gave; Forward does the same with
\* "fwd:" and "Fwd: ".
C7_NoDoublePrefix ==
    /\ AllOps("Reply") =>
           out.Subject = IF HasPrefix(ToLower(m.Subject), <<"r", "e", ":">>)
                         THEN m.Subject
                         ELSE <<"R", "e", ":", " ">> \o m.Subject
    /\ AllOps("Forward") =>
           out.Subject = IF HasPrefix(ToLower(m.Subject), <<"f", "w", "d", ":">>)
                         THEN m.Subject
                         ELSE <<"F", "w", "d", ":", " ">> \o m.Subject

\* Reply was applied twice to a message whose subject had no prefix.
C7_Witness ==
    /\ hist = <<"Reply", "Reply">>
    /\ m.Subject = <<"w">>
    /\ out.Subject = <<"R", "e", ":", " ", "w">>

---------------------------------------------------------------------------
(* Specification SpecRead: ReadMessage on a raw message, the MIME walk one *)
(* decodeBody call at a time.  The sub-parts of a multipart part are drawn *)
(* as the walk meets them.                                                 *)

Part(ct, name, cd, filename, cte, charset, raw, inner) ==
    [ct |-> ct, name |-> name, cd |-> cd, filename |-> filename, cte |-> cte,
     charset |-> charset, raw |-> raw, inner |-> inner]

PlainLeaf == Part("text/plain", <<>>, "", <<>>, "", "utf-8", <<"p">>, <<>>)
BadWord == <<"=?x-unknown?q?", "f", "?=">>

LeafParts ==
    { PlainLeaf,
      Part("", <<>>, "", <<>>, "BASE64", "", <<"Y", "W", "Y", "W">>, <<>>),
      Part("text/plain", <<>>, "", <<>>, "quoted-printable", "utf-8", <<"q", "=3D">>, <<>>),
      Part("text/plain", <<>>, "attachment", <<>>, "8bit", "", <<RawByte>>, <<>>),
      Part("text/plain", <<>>, "", <<>>, "X-Custom", "utf-8", <<"p">>, <<>>),
      Part("text/html", <<>>, "", <<>>, "", "utf-8", <<"<b>", "h", "</b>">>, <<>>),
      Part("text/html", <<>>, "", <<>>, "base64", "utf-8",
           <<"Y", "Y", "Y", "Y", "!", "W", "W", "W">>, <<>>),
      Part("image/png", <<>>, "", <<>>, "base64", "", <<"Y", "Y", "Y", "Y">>, <<>>),
      Part("image/png", <<>>, "", <<>>, "X-Custom", "", <<"i">>, <<>>),
      Part("application/octet-stream", <<"a", ".", "t", "x", "t">>, "", <<>>, "base64", "",
           <<"W", "Y", RawByte, "W", "Y">>, <<>>),
      Part("text/plain", <<>>, "attachment", <<"g">>, "", "utf-8", <<RawByte, "p">>, <<>>),
      Part("image/png", <<>>, "attachment", <<"g">>, "x-custom", "", <<"i">>, <<>>),
      Part("image/png", BadWord, "", <<>>, "X-Custom", "", <<"i">>, <<>>),
      Part("malformed", <<>>, "", <<>>, "", "", <<"p">>, <<>>),
      Part("text/plain", <<>>, "malformed", <<>>, "", "", <<"p">>, <<>>),
      Part("multipart/mixed", <<"f">>, "", <<>>, "", "", <<"--b", "p", "--b--">>,
           <<PlainLeaf>>) }

Containers ==
    { Part("multipart/mixed", <<>>, "", <<>>, "", "", <<>>, <<>>),
      Part("multipart/alternative", <<>>, "", <<>>, "X-Custom", "", <<>>, <<>>) }

SubParts == LeafParts \cup Containers

Raw(msgid, date, subject, retpath, from, to, cc, other, root, malformed) ==
    [MessageId |-> msgid, Date |-> date, Subject |-> subject, ReturnPath |-> retpath,
     From |-> from, To |-> to, Cc |-> cc, Other |-> other, root |-> root,
     malformed |-> malformed]

NoOther == [k \in {} |-> <<>>]

ReadInputs ==
    {Raw(id, date, subj, rp, from, to, cc, other, PlainLeaf, FALSE) :
        id \in {<<>>, <<"<", "i", ">">>},
        date \in {<<>>, <<"d">>},
        subj \in {<<>>, <<"s">>, BadWord},
        rp \in {<<>>, <<"<", "r", ">">>},
        from \in {<<>>, <<"<", "a", ">">>, <<"N", " ", "<", "a", ">">>, <<"<", ">">>,
                  <<",", "b">>, <<"b">>, BadWord},
        to \in {<<>>, <<"<", "a", ">", ",", "<", "b", ">">>},
        cc \in {<<>>, <<"c">>},
        other \in {NoOther,
                   [k \in {"X-Note"} |-> << <<"=?utf-8?q?", "n", "_", "?=">>, <<"m">> >>]}}
    \cup
    {Raw(<<>>, <<>>, <<"s">>, <<>>, <<"<", "a", ">">>, <<>>, <<>>, NoOther, root, FALSE) :
        root \in SubParts}
    \cup
    {Raw(<<>>, <<>>, <<>>, <<>>, <<>>, <<>>, <<>>, NoOther, PlainLeaf, TRUE)}

InitRead ==
    /\ pc = "start"
    /\ input \in ReadInputs
    /\ m = NoMsg
    /\ out = NoMsg
    /\ err = NoErr
    /\ depth = 0
    /\ leaves = <<>>
    /\ pos = 0
    /\ hist = <<>>

\* Lines 103-106: the header block does not parse.
ReadMessageFails ==
    /\ pc = "start"
    /\ input.malformed
    /\ pc' = "done"
    /\ err' = <<"malformed header">>
    /\ UNCHANGED <<input, m, out, depth, leaves, pos, hist>>

\* Lines 108-201.
DoReadHeaders ==
    /\ pc = "start"
    /\ ~input.malformed
    /\ LET r == ReadHeaders(input) IN
       IF r.ok
       THEN /\ m' = r.m
            /\ pc' = "root"
            /\ err' = NoErr
       ELSE /\ m' = m
            /\ pc' = "done"
            /\ err' = r.err
    /\ UNCHANGED <<input, out, depth, leaves, pos, hist>>

\* One call of decodeBody: on the root part (line 204) or on the next
\* sub-part of the multipart part being read (lines 440-448).
DecodeBodyCall ==
    /\ pc \in {"root", "walk"}
    /\ Len(leaves) < MaxParts
    /\ \E p \in (IF pc = "root" THEN {input.root} ELSE SubParts) :
          LET r == decodePart(m, p) IN
          /\ leaves' = Append(leaves, p)
          /\ IF r.err # NoErr
             THEN /\ err' = <<"decode body">> \o r.err
                  /\ pc' = "done"
                  /\ UNCHANGED <<m, depth>>
             ELSE IF r.descend
             THEN /\ depth < MaxDepth
                  /\ depth' = depth + 1
                  /\ pc' = "walk"
                  /\ UNCHANGED <<m, err>>
             ELSE /\ m' = r.m
                  /\ pc' = IF pc = "root" THEN "post" ELSE "walk"
                  /\ UNCHANGED <<err, depth>>
    /\ UNCHANGED <<input, out, pos, hist>>

\* Lines 440-443 and 453: NextPart returns io.EOF and the call returns.
NextPartEOF ==
    /\ pc = "walk"
    /\ depth > 0
    /\ depth' = depth - 1
    /\ pc' = IF depth = 1 THEN "post" ELSE "walk"
    /\ UNCHANGED <<input, m, out, err, leaves, pos, hist>>

\* Lines 441-445: NextPart returns another error.
NextPartFails ==
    /\ pc = "walk"
    /\ depth > 0
    /\ err' = <<"decode body", "next part">>
    /\ pc' = "done"
    /\ UNCHANGED <<input, m, out, depth, leaves, pos, hist>>

\* Lines 208-216.
FinishRead ==
    /\ pc = "post"
    /\ out' = ConvertHTML(m)
    /\ pc' = "done"
    /\ UNCHANGED <<input, m, err, depth, leaves, pos, hist>>

NextRead ==
    \/ ReadMessageFails
    \/ DoReadHeaders
    \/ DecodeBodyCall
    \/ NextPartEOF
    \/ NextPartFails
    \/ FinishRead

SpecRead == InitRead /\ [][NextRead]_vars

\* C1: a message that ReadMessage returns has a From that is not empty.
C1_FromNeverEmpty ==
    (pc = "done" /\ err = NoErr) => (out # NoMsg /\ out.From # <<>>)

\* C3: the HTML-to-text collaborator runs and IsHTML is set exactly when
\* the walk left Body empty and HTML not empty; a Body the walk filled is
\* returned as it is, with HTML beside it and IsHTML false.
C3_HTMLOnlyWhenBodyEmpty ==
    [][(pc = "post" /\ pc' = "done" /\ err' = NoErr) =>
          /\ out'.IsHTML <=> (m.Body = <<>> /\ m.HTML # <<>>)
          /\ m.Body # <<>> =>
                (out'.Body = m.Body /\ out'.HTML = m.HTML /\ ~out'.IsHTML)]_vars

Unsupported(label) == ToLowerLabel(label) \notin SupportedLabels

UnsupportedError(e, label) ==
    \/ e = <<"decode body", "read body", "unsupported transfer encoding", label>>
    \/ e = <<"decode body", "read attachment", "unsupported transfer encoding", label>>

\* C4 as stated: a part of any media type, at any depth, with a transfer
\* encoding label that is not supported makes ReadMessage fail with the
\* unsupported-transfer-encoding error that carries the label.
C4_AnyPartUnsupported ==
    \A i \in 1..Len(leaves) :
        (pc = "done" /\ Unsupported(leaves[i].cte)) =>
            (UnsupportedError(err, leaves[i].cte) /\ out = NoMsg)

\* decodeBody hands the bytes of p to decodeTransfer: p carries a file name
\* that decodes, or carries none and is text/plain or text/html.
ReadsTransfer(p) ==
    /\ p.ct # "malformed"
    /\ ~(p.name = <<>> /\ p.cd = "malformed")
    /\ IF FileName(p) # <<>>
       THEN decodeHeader(FileName(p)).ok
       ELSE MediaType(p) \in {"text/plain", "text/html"}

\* C4, amended: once the walk has met a part whose bytes it reads (an
\* attachment, or a text/plain or text/html leaf without file name) and
\* whose label is not supported, the first read has failed with no byte
\* read, ReadMessage has returned the unsupported-transfer-encoding error
\* that carries the label as written, and no message.
C4_ReadPartUnsupported ==
    \A i \in 1..Len(leaves) :
        (ReadsTransfer(leaves[i]) /\ Unsupported(leaves[i].cte)) =>
            /\ pc = "done"
            /\ UnsupportedError(err, leaves[i].cte)
            /\ out = NoMsg
            /\ i = Len(leaves)
            /\ ReadAllTransfer(leaves[i].raw, 0, leaves[i].cte).data = <<>>

\* The walk met a nested attachment with the label "x-custom".
C4_Witness ==
    /\ pc = "done"
    /\ depth = 2
    /\ Len(leaves) = 3
    /\ leaves[3].cte = "x-custom"
    /\ leaves[3].filename = <<"g">>
    /\ err = <<"decode body", "read attachment", "unsupported transfer encoding", "x-custom">>

\* The leaves of the part tree, in document order: the parts met that are
\* no multipart part, and the leaves inside a multipart part that was met
\* but not descended into.
RECURSIVE TreeLeaves(_)
TreeLeaves(parts) ==
    IF parts = <<>> THEN <<>>
    ELSE (IF IsMultipart(MediaType(Head(parts))) THEN Head(parts).inner ELSE <<Head(parts)>>)
         \o TreeLeaves(Tail(parts))

\* The parts at which the walk stops: every part met but the multipart
\* parts without file name.
Terminals(parts) ==
    SelectSeq(parts, LAMBDA p : FileName(p) # <<>> \/ ~IsMultipart(MediaType(p)))

AsAttachment(p) ==
    [Name |-> decodeHeader(FileName(p)).val, Data |-> ReadAllTransfer(p.raw, 0, p.cte).data]

AsText(p) == decodeCharset(RetryLoop(p.raw, p.cte, 0, <<>>, Len(p.raw)).buf, p.charset).val

RECURSIVE Attachments(_)
Attachments(ps) ==
    IF ps = <<>> THEN <<>>
    ELSE (IF FileName(Head(ps)) # <<>> THEN <<AsAttachment(Head(ps))>> ELSE <<>>)
         \o Attachments(Tail(ps))

RECURSIVE TextOf(_, _)
TextOf(ps, ct) ==
    IF ps = <<>> THEN <<>>
    ELSE (IF FileName(Head(ps)) = <<>> /\ MediaType(Head(ps)) = ct
          THEN AsText(Head(ps)) ELSE <<>>)
         \o TextOf(Tail(ps), ct)

WalkSucceeds == pc \in {"walk", "post"} /\ err = NoErr

\* C8 as stated: the message decodeBody leaves is determined by the leaves
\* of the tree in document order.
C8_LeavesDetermineMessage ==
    WalkSucceeds =>
        /\ m.Parts = Attachments(TreeLeaves(leaves))
        /\ m.Body = TextOf(TreeLeaves(leaves), "text/plain")
        /\ m.HTML = TextOf(TreeLeaves(leaves), "text/html")

\* C8, amended: the message decodeBody leaves is determined by the parts at
\* which the walk stops, in document order, a part that carries a file
\* name being one of them whatever its media type, multipart included:
\* Parts holds the parts with a file name, transfer-decoded and not
\* charset-decoded; Body and HTML are the concatenations of the text/plain
\* and text/html leaves without file name; any other leaf changes nothing.
C8_TerminalsDetermineMessage ==
    WalkSucceeds =>
        /\ m.Parts = Attachments(Terminals(leaves))
        /\ m.Body = TextOf(Terminals(leaves), "text/plain")
        /\ m.HTML = TextOf(Terminals(leaves), "text/html")

\* The walk has met, inside a multipart part, a base64 text/plain leaf, an
\* image without file name and a text/plain part with a file name.
C8_Witness ==
    /\ pc = "post"
    /\ Len(leaves) = 4
    /\ \E i \in 1..Len(leaves) : leaves[i].ct = "image/png" /\ FileName(leaves[i]) = <<>>
    /\ m.Parts = << [Name |-> <<"g">>, Data |-> <<RawByte, "p">>] >>
    /\ m.Body = <<"yw", "wy", "yw">>
    /\ m.HTML = <<>>

\* C9: there is a nesting depth beyond which the walk does not descend:
\* ReadMessage fails with TooDeeplyNested instead.
C9_RecursionGuard ==
    \E limit \in 0..(MaxDepth - 1) :
        depth > limit => (pc = "done" /\ err = <<"decode body", "TooDeeplyNested">>)

---------------------------------------------------------------------------
(* Specification SpecRoundTrip: NewMessage, Marshal, and ReadMessage on    *)
(* the bytes that Marshal wrote.                                           *)

\* textproto.CanonicalMIMEHeaderKey on the names Marshal writes.
CanonicalKey(name) ==
    CASE name = "CC" -> "Cc"
      [] name = "Message-ID" -> "Message-Id"
      [] OTHER -> name

\* mail.Header.Get: the trimmed value of the first line of that name.
HeaderGet(lines, key) ==
    IF \E i \in 1..Len(lines) : CanonicalKey(lines[i].name) = key
    THEN TrimSpace(lines[CHOOSE i \in 1..Len(lines) :
                            /\ CanonicalKey(lines[i].name) = key
                            /\ \A k \in 1..(i - 1) : CanonicalKey(lines[k].name) # key].value)
    ELSE <<>>

FieldHeaders ==
    {"Message-Id", "Subject", "Date", "Return-Path", "From", "To", "Cc"}
MIMEHeaders == {"Content-Type", "Content-Transfer-Encoding", "Content-Disposition"}

\* mail.ReadMessage (line 103) on the output of Marshal: the header block
\* and the body as the root part.
ParseWire(wire) ==
    LET get(k) == HeaderGet(wire.lines, k)
        ctype == get("Content-Type")
        names == {CanonicalKey(wire.lines[i].name) : i \in 1..Len(wire.lines)}
                 \ (FieldHeaders \cup MIMEHeaders)
    IN  Raw(get("Message-Id"), get("Date"), get("Subject"), get("Return-Path"),
            get("From"), get("To"), get("Cc"),
            [k \in names |-> <<get(k)>>],
            Part(IF ctype = <<>> THEN "" ELSE ctype[1], <<>>, "", <<>>,
                 FirstOr(get("Content-Transfer-Encoding"), ""),
                 IF "charset=utf-8" \in Range(ctype) THEN "utf-8" ELSE "",
                 wire.body, <<>>),
            FALSE)

\* ReadMessage lines 204-216: the outcome of decodeBody on the root part.
ReadBodyResult(r) ==
    IF r.err # NoErr THEN [m |-> NoMsg, err |-> <<"decode body">> \o r.err]
    ELSE [m |-> ConvertHTML(r.m), err |-> NoErr]

\* ReadMessage after the header block: an error of the header block is
\* returned, else the root part is decoded.
ReadBody(h, raw) ==
    IF ~h.ok THEN [m |-> NoMsg, err |-> h.err]
    ELSE ReadBodyResult(decodePart(h.m, raw.root))

\* ReadMessage on a message whose root part is no multipart part.
ReadSinglePart(raw) == ReadBody(ReadHeaders(raw), raw)

BodyAlphabet == {"a", " ", "\n", "="}
RTSubjAlphabet == {"s", " ", "e'"}

RTInput(to, cc, subject, body, headers) ==
    [from |-> <<"a">>, to |-> to, cc |-> cc, subject |-> subject, body |-> body,
     headers |-> headers]

RoundTripInputs ==
    {RTInput(to, cc, <<"s">>, <<"a">>, headers) :
        to \in SeqsUpTo({<<"a">>, <<"b">>}, MaxList),
        cc \in {<<>>, << <<"c">> >>},
        headers \in {NoOther, [k \in {"X-Note"} |-> <<"n", " ", "e'">>]}}
    \cup
    {RTInput(<< <<"b">> >>, <<>>, subject, body, NoOther) :
        subject \in SeqsUpTo(RTSubjAlphabet, MaxSubjLen) \ {<<>>},
        body \in {<<>>, <<"a", "\n">>}}
    \cup
    {RTInput(<< <<"b">> >>, <<>>, <<"s">>, body, NoOther) :
        body \in SeqsUpTo(BodyAlphabet, MaxBodyLen)}

InitRoundTrip ==
    /\ pc = "new"
    /\ input \in RoundTripInputs
    /\ m = NoMsg
    /\ out = NoMsg
    /\ err = NoErr
    /\ depth = 0
    /\ leaves = <<>>
    /\ pos = 0
    /\ hist = <<>>

DoNewMessage ==
    /\ pc = "new"
    /\ m' = NewMessage(input.from, input.to, input.cc, input.subject, input.body,
                       input.headers, makeID(1))
    /\ pc' = "built"
    /\ UNCHANGED <<input, out, err, depth, leaves, pos, hist>>

\* Marshal; its output becomes the input of ReadMessage.
DoMarshal ==
    /\ pc = "built"
    /\ input' = Marshal(m)
    /\ pc' = "wire"
    /\ UNCHANGED <<m, out, err, depth, leaves, pos, hist>>

DoReadBack ==
    /\ pc = "wire"
    /\ \E r \in {ReadSinglePart(ParseWire(input))} :
       /\ out' = r.m
       /\ err' = r.err
    /\ pc' = "done"
    /\ UNCHANGED <<input, m, depth, leaves, pos, hist>>

NextRoundTrip == DoNewMessage \/ DoMarshal \/ DoReadBack

SpecRoundTrip == InitRoundTrip /\ [][NextRoundTrip]_vars

\* C2: ReadMessage(Marshal(m)) succeeds and gives back the From, To, CC,
\* Subject and Body of the message m that NewMessage built.
C2_RoundTrip ==
    pc = "done" =>
        /\ err = NoErr
        /\ out # NoMsg
        /\ out.From = m.From
        /\ out.To = m.To
        /\ out.CC = m.CC
        /\ out.Subject = m.Subject
        /\ out.Body = m.Body

\* The same but for Body: the header fields come back.
C2_HeadersComeBack ==
    (pc = "done" /\ m.Subject = TrimSpace(m.Subject)) =>
        /\ err = NoErr
        /\ out.From = m.From
        /\ out.To = m.To
        /\ out.CC = m.CC
        /\ out.Subject = m.Subject

\* What comes back as Body: every line break as CR LF, and one more line
\* feed at the end.
RECURSIVE WithCRLF(_)
WithCRLF(str) ==
    IF str = <<>> THEN <<>>
    ELSE (IF Head(str) = "\n" THEN <<"\r", "\n">> ELSE <<Head(str)>>) \o WithCRLF(Tail(str))

C2_BodyComesBackLonger ==
    pc = "done" => out.Body = Append(WithCRLF(m.Body), "\n")

---------------------------------------------------------------------------
(* Specification SpecRetry: the loop of a text/plain or text/html leaf     *)
(* (lines 410-421), one read of the part stream per step.  The loop runs   *)
(* on: the code is sequential, so a step that can be taken is taken.       *)

StreamAlphabet == {"Y", "!", RawByte}

ExampleStreams ==
    { <<"Y", "W", "Y", "W", "!", "Y", "Y", "Y", "W", "W", "Y", "Y">>,
      <<"Y", "Y", "!", RawByte, "Y", "W", "W", "W", "W", "!", "!", "!", "!">> }

RetryInputs ==
    [stream : SeqsUpTo(StreamAlphabet, MaxStream) \cup ExampleStreams,
     label : {"BASE64", "", "X-Custom"}]

InitRetry ==
    /\ pc = "loop"
    /\ input \in RetryInputs
    /\ m = NoMsg
    /\ out = <<>>
    /\ err = NoErr
    /\ depth = 0
    /\ leaves = <<>>
    /\ pos = 0
    /\ hist = <<>>

\* Lines 412-420: one turn of the loop.  out is buf, pos the number of
\* bytes of r consumed, hist the data each read returned.
RetryRead ==
    /\ pc = "loop"
    /\ LET r == ReadAllTransfer(input.stream, pos, input.label) IN
       /\ out' = WriteBuf(out, r.data)
       /\ hist' = Append(hist, r.data)
       /\ IF r.err = CorruptInput
          THEN /\ \E ahead \in 0..MaxReadAhead :
                      pos' = NextReadPos(pos, r.used, ahead, Len(input.stream))
               /\ UNCHANGED <<pc, err>>
          ELSE IF r.err # NoReadErr
          THEN /\ pc' = "fail"
               /\ err' = ReadError("read body", r.err, input.label)
               /\ pos' = r.used
          ELSE /\ pc' = "read"
               /\ pos' = r.used
               /\ UNCHANGED err
    /\ UNCHANGED <<input, m, depth, leaves>>

NextRetry == RetryRead

SpecRetry == InitRetry /\ [][NextRetry]_vars /\ WF_vars(NextRetry)

\* C10: the retry loop ends for every finite stream: a turn that ends in
\* the corrupt-input error has consumed at least one byte of the stream,
\* a turn that finds the stream exhausted leaves the loop, and what every
\* read decoded, the failed ones too, is kept in buf in the order read.
C10_RetryTerminates ==
    /\ [][(pc = "loop" /\ pc' = "loop") => pos' > pos]_vars
    /\ [][(pc = "loop" /\ pos = Len(input.stream)) => pc' # "loop"]_vars
    /\ [](pos <= Len(input.stream) /\ out = Concat(hist))
    /\ <>(pc # "loop")

\* The loop ended after a read that failed on a corrupt quantum and one
\* that decoded the quantum after it; both reads left their bytes.
C10_Witness ==
    /\ pc = "read"
    /\ Len(hist) = 2
    /\ hist[1] # <<>>
    /\ hist[2] # <<>>
    /\ out = <<"yw", "wy", "yw", "ww", "wy", "yy">>

====
